---------------------------- MODULE Spec2Model ----------------------------
(***************************************************************************)
(* A model of the reconciliation core of build.py: reindex, blend_un_wad,  *)
(* _split_numbers and map_numbers.                                         *)
(*                                                                         *)
(* Python dicts are functions whose domain is the key set.  Country        *)
(* records are objects: they live in `heap` under an object id and the     *)
(* dicts (und, wad, newdata, isonum, byname) and the list `patched` hold   *)
(* ids, so that a record shared by two containers is one object, as in the *)
(* code.  Texts that the code converts or searches (names, raw dialing     *)
(* strings) are sequences of one-character strings; ISO codes and ISO      *)
(* numbers, which the code only compares and copies, are TLA+ strings.     *)
(*                                                                         *)
(* The code is Python 2: dict.items(), dict.values() and dict.keys()       *)
(* return lists in an order the program does not control, so every loop    *)
(* over a dict takes its elements in any order.                            *)
(***************************************************************************)
EXTENDS Integers, Sequences, FiniteSets, TLC

VARIABLES pc, heap, heap0, und, wad, newdata, patched, isonum, todo,
          missing_iso3, numbers, result, country_codes, byname, pending

vars == <<pc, heap, heap0, und, wad, newdata, patched, isonum, todo,
          missing_iso3, numbers, result, country_codes, byname, pending>>

\* ---------------------------------------------------------------- bounds
\* most records in the UN mapping / in the World Atlas mapping
MaxUnd == 2
MaxWad == 2
\* most raw strings in one list handed to _split_numbers
MaxEntries == 5
\* most records in the blended mapping / most names in the dialing mapping
\* handed to map_numbers
MaxBlended == 2
MaxCodes == 2

\* ------------------------------------------------------------ dictionaries
Empty == << >>

Put(m, k, v) == [x \in DOMAIN m \cup {k} |-> IF x = k THEN v ELSE m[x]]

Del(m, k) == [x \in DOMAIN m \ {k} |-> m[x]]

Values(m) == {m[k] : k \in DOMAIN m}

\* dict.update: the keys of `other` are written over those of `d`
Update(d, other) ==
    [x \in DOMAIN d \cup DOMAIN other |-> IF x \in DOMAIN other THEN other[x] ELSE d[x]]

\* ------------------------------------------------------------------- text
Str_Foo == <<"F", "o", "o">>
Str_FOO == <<"F", "O", "O">>
Str_FOO_BAR == <<"F", "O", "O", " ", "B", "A", "R">>

UpperChar(c) ==
    CASE c = "a" -> "A" [] c = "o" -> "O" [] c = "r" -> "R" [] OTHER -> c

\* str.upper()
Upper(s) == [i \in 1..Len(s) |-> UpperChar(s[i])]

\* ---------------------------------------------------------------- reindex
\* reindex(dataset, key): newdict[data[key]] = data for every value, in the
\* order of dataset.values(); of the records that share a value of the field
\* the last one written stays, and which one that is depends on the order.
ReindexResults(h, dataset, key) ==
    LET vals == {h[id][key] : id \in Values(dataset)}
    IN  {f \in [vals -> Values(dataset)] : \A v \in vals : h[f[v]][key] = v}

\* ------------------------------------------------------------ blend_un_wad
Iso3s == {"ABC", "ABD", "XYZ"}
IsoNumbers == {"004", "005"}
UnNames == {Str_Foo, Str_FOO}
WaNames == {Str_FOO, Str_FOO_BAR}

UnId(k) == <<"und", k>>
WaId(k) == <<"wad", k>>

\* download_un_data: country_dict[iso3] = dict(number, name, iso3)
UnRecords(k) == {[number |-> n, name |-> s, iso3 |-> k] : n \in IsoNumbers, s \in UnNames}

\* download_worldatlas_data: country_dict[row[1]] = dict(zip(keys, row))
WaRecords(k) ==
    {[iso2 |-> "XX", iso3 |-> k, number |-> n, name |-> s] : n \in IsoNumbers, s \in WaNames}

NoDict == Empty
NoSeq == << >>

InitBlend ==
    /\ pc = "blend"
    /\ \E uk \in SUBSET Iso3s, wk \in SUBSET Iso3s :
         /\ Cardinality(uk) <= MaxUnd
         /\ Cardinality(wk) <= MaxWad
         /\ und = [k \in uk |-> UnId(k)]
         /\ wad = [k \in wk |-> WaId(k)]
         /\ \E ur \in [uk -> UNION {UnRecords(k) : k \in Iso3s}],
               wr \in [wk -> UNION {WaRecords(k) : k \in Iso3s}] :
              /\ \A k \in uk : ur[k].iso3 = k
              /\ \A k \in wk : wr[k].iso3 = k
              /\ heap = [id \in {UnId(k) : k \in uk} \cup {WaId(k) : k \in wk} |->
                           IF id[1] = "und" THEN ur[id[2]] ELSE wr[id[2]]]
    /\ heap0 = heap
    /\ newdata = NoDict
    /\ patched = NoSeq
    /\ isonum = NoDict
    /\ todo = {}
    /\ missing_iso3 = {}
    /\ numbers = NoSeq
    /\ result = NoDict
    /\ country_codes = NoDict
    /\ byname = NoDict
    /\ pending = {}

\* lines 229-233: newdata = wad.copy(); patched = []; isonum = reindex(und,
\* 'number'); the loop runs over the list newdata.items() made here.
BlendStart ==
    /\ pc = "blend"
    /\ newdata' = wad
    /\ patched' = << >>
    /\ isonum' \in ReindexResults(heap, und, "number")
    /\ todo' = {<<k, wad[k]>> : k \in DOMAIN wad}
    /\ pc' = "loop"
    /\ UNCHANGED <<heap, heap0, und, wad, missing_iso3, numbers, result,
                   country_codes, byname, pending>>

\* BlendShared comparing the broad name with the UN name as downloaded, not
\* uppercased
BlendSharedRawName(iso3, data) ==
    LET undata == heap[und[iso3]]
        unname == Upper(undata.name)
        PATCHED == heap[data].number # undata.number \/ heap[data].name # undata.name
    IN  /\ heap' = [heap EXCEPT ![data].number = undata.number, ![data].name = unname]
        /\ patched' = IF PATCHED THEN Append(patched, data) ELSE patched
        /\ newdata' = Put(newdata, iso3, data)

\* lines 235-243, 259-261: the UN has a record under this ISO3
BlendShared(iso3, data) ==
    LET undata == heap[und[iso3]]
        unname == Upper(undata.name)
        PATCHED == heap[data].number # undata.number \/ heap[data].name # unname
    IN  /\ heap' = [heap EXCEPT ![data].number = undata.number, ![data].name = unname]
        /\ patched' = IF PATCHED THEN Append(patched, data) ELSE patched
        /\ newdata' = Put(newdata, iso3, data)

\* BlendRekey without line 250, data['iso3'] = iso3
BlendRekeyKeepIso3(oldiso3, data) ==
    LET undata == heap[isonum[heap[data].number]]
        iso3 == undata.iso3
        stored == Put(newdata, iso3, data)
        PATCHED == oldiso3 \in DOMAIN stored
    IN  /\ heap' = [heap EXCEPT ![data].name = Upper(undata.name)]
        /\ patched' = IF PATCHED THEN Append(patched, data) ELSE patched
        /\ newdata' = Put(Del(stored, oldiso3), iso3, data)

\* lines 244-255, 259-261: no UN record under this ISO3, one under the number
BlendRekey(oldiso3, data) ==
    LET undata == heap[isonum[heap[data].number]]
        iso3 == undata.iso3
        stored == Put(newdata, iso3, data)
        \* del(newdata[oldiso3]) raises KeyError, caught at line 256, when
        \* the key is gone
        PATCHED == oldiso3 \in DOMAIN stored
    IN  /\ heap' = [heap EXCEPT ![data].iso3 = iso3, ![data].name = Upper(undata.name)]
        /\ patched' = IF PATCHED THEN Append(patched, data) ELSE patched
        /\ newdata' = Put(Del(stored, oldiso3), iso3, data)

\* lines 256-261: there is no UN entry for this country
BlendKeep(iso3, data) ==
    /\ heap' = heap
    /\ patched' = patched
    /\ newdata' = Put(newdata, iso3, data)

\* one pass of the loop of line 233
BlendStep ==
    /\ pc = "loop"
    /\ \E item \in todo :
         /\ todo' = todo \ {item}
         /\ \/ /\ item[1] \in DOMAIN und
               /\ BlendShared(item[1], item[2])
            \/ /\ item[1] \notin DOMAIN und
               /\ heap[item[2]].number \in DOMAIN isonum
               /\ BlendRekey(item[1], item[2])
            \/ /\ item[1] \notin DOMAIN und
               /\ heap[item[2]].number \notin DOMAIN isonum
               /\ BlendKeep(item[1], item[2])
    /\ UNCHANGED <<pc, heap0, und, wad, isonum, missing_iso3, numbers, result,
                   country_codes, byname, pending>>

\* lines 263-265
BlendMissing ==
    /\ pc = "loop"
    /\ todo = {}
    /\ missing_iso3' = DOMAIN und \ DOMAIN newdata
    /\ pc' = "missing"
    /\ UNCHANGED <<heap, heap0, und, wad, newdata, patched, isonum, todo, numbers,
                   result, country_codes, byname, pending>>

\* BlendInsert without line 271, newdata[iso3] = data
BlendInsertNoStore ==
    /\ pc = "missing"
    /\ \E iso3 \in missing_iso3 :
         LET data == und[iso3]
         IN  /\ heap' = [heap EXCEPT ![data] =
                           Update(heap[data], [iso2 |-> "", name |-> Upper(heap[data].name)])]
             /\ newdata' = newdata
             /\ patched' = Append(patched, data)
             /\ missing_iso3' = missing_iso3 \ {iso3}
    /\ UNCHANGED <<pc, heap0, und, wad, isonum, todo, numbers, result,
                   country_codes, byname, pending>>

\* lines 267-272: one pass of the loop over missing_iso3
BlendInsert ==
    /\ pc = "missing"
    /\ \E iso3 \in missing_iso3 :
         LET data == und[iso3]
         IN  /\ heap' = [heap EXCEPT ![data] =
                           Update(heap[data], [iso2 |-> "", name |-> Upper(heap[data].name)])]
             /\ newdata' = Put(newdata, iso3, data)
             /\ patched' = Append(patched, data)
             /\ missing_iso3' = missing_iso3 \ {iso3}
    /\ UNCHANGED <<pc, heap0, und, wad, isonum, todo, numbers, result,
                   country_codes, byname, pending>>

\* line 274
BlendReturn ==
    /\ pc = "missing"
    /\ missing_iso3 = {}
    /\ pc' = "blended"
    /\ UNCHANGED <<heap, heap0, und, wad, newdata, patched, isonum, todo, missing_iso3,
                   numbers, result, country_codes, byname, pending>>

NextBlend == BlendStart \/ BlendStep \/ BlendMissing \/ BlendInsert \/ BlendReturn

SpecBlend == InitBlend /\ [][NextBlend]_vars

\* ------------------------------------------------- claims on blend_un_wad
InPatched(id) == \E i \in 1..Len(patched) : patched[i] = id

Shared == DOMAIN und \cap DOMAIN wad

UnNumbers == {heap0[und[k]].number : k \in DOMAIN und}

\* the broad records the fallback join on the number applies to
Fallback == {k \in DOMAIN wad \ DOMAIN und : heap0[wad[k]].number \in UnNumbers}

\* the two inputs agree on number and name under ISO3 k
AgreeOn(k) ==
    /\ heap0[wad[k]].number = heap0[und[k]].number
    /\ heap0[wad[k]].name = Upper(heap0[und[k]].name)

\* C1: when blend_un_wad has returned, every ISO3 key of the UN mapping is a
\* key of the blended mapping.
C1_Completeness == pc = "blended" => DOMAIN und \subseteq DOMAIN newdata

\* a run that merged one UN record into a World Atlas record and inserted
\* another UN record that the World Atlas lacks
C1_Witness ==
    /\ pc = "blended"
    /\ \E k \in Shared : newdata[k] = wad[k]
    /\ \E k \in DOMAIN und \ DOMAIN wad : newdata[k] = und[k]

\* C2 as claimed: under every ISO3 that both inputs have, the blended record
\* carries the UN number and the uppercased UN name, and it is in the patched
\* list exactly when the World Atlas number or name differed from them.
C2_ConflictResolution ==
    pc = "blended" =>
        \A k \in Shared :
            /\ k \in DOMAIN newdata
            /\ heap[newdata[k]].number = heap0[und[k]].number
            /\ heap[newdata[k]].name = Upper(heap0[und[k]].name)
            /\ InPatched(newdata[k]) <=> ~AgreeOn(k)

\* C3: when blend_un_wad has returned, every record of the blended mapping is
\* stored under the value of its own iso3 field.
C3_KeyIsIso3 ==
    pc = "blended" => \A k \in DOMAIN newdata : heap[newdata[k]].iso3 = k

\* a run that re-keyed a World Atlas record by its number and inserted a UN
\* record of its own
C3_Witness ==
    /\ pc = "blended"
    /\ \E k \in DOMAIN newdata, j \in DOMAIN wad : j # k /\ newdata[k] = wad[j]
    /\ \E k \in DOMAIN und : newdata[k] = und[k]

\* C4 as claimed: if the inputs agree on number and name under every ISO3
\* they share, the patched list is empty.
C4_AgreementEmpty ==
    (pc = "blended" /\ \A k \in Shared : AgreeOn(k)) => patched = << >>

\* C4 amended: if the inputs agree on number and name under every ISO3 they
\* share, the patched list holds only World Atlas records that the fallback
\* join re-keyed and UN records whose ISO3 the World Atlas lacks; it is empty
\* when there are none of either.
C4_AgreementOnlyNew ==
    (pc = "blended" /\ \A k \in Shared : AgreeOn(k)) =>
        \A i \in 1..Len(patched) :
            \/ \E k \in Fallback : patched[i] = wad[k]
            \/ \E k \in DOMAIN und \ DOMAIN wad : patched[i] = und[k]

\* a run over agreeing inputs whose UN name was not yet in upper case: the
\* shared record was merged and nothing was patched
C4_Witness ==
    /\ pc = "blended"
    /\ \E k \in Shared : AgreeOn(k) /\ heap0[und[k]].name # heap0[wad[k]].name
    /\ \A k \in Shared : AgreeOn(k)
    /\ patched = << >>

\* C5 as claimed: a World Atlas record whose ISO3 the UN lacks and whose
\* number is that of a UN record P (the one reindex keeps under that
\* number) leaves its old key, is stored under P's
\* ISO3 with P's ISO3 and uppercased name, and is patched; one with neither
\* correspondence stays under its key, unchanged and not patched.
C5_FallbackRekey ==
    pc = "blended" =>
        \A k \in DOMAIN wad \ DOMAIN und :
            /\ k \in Fallback =>
                 LET p == heap0[isonum[heap0[wad[k]].number]].iso3
                 IN  /\ k \notin DOMAIN newdata
                     /\ p \in DOMAIN newdata
                     /\ newdata[p] = wad[k]
                     /\ heap[wad[k]].iso3 = p
                     /\ heap[wad[k]].name = Upper(heap0[und[p]].name)
                     /\ InPatched(wad[k])
            /\ k \notin Fallback =>
                     /\ k \in DOMAIN newdata
                     /\ newdata[k] = wad[k]
                     /\ heap[wad[k]] = heap0[wad[k]]
                     /\ ~InPatched(wad[k])

\* C9 as claimed: every element of the patched list is a value of the
\* blended mapping.
C9_PatchedInBlend ==
    pc = "blended" => \A i \in 1..Len(patched) : patched[i] \in Values(newdata)

\* ---------------------------------------------------------- _split_numbers
\* str.replace('+', '')
RemovePlus(s) == SelectSeq(s, LAMBDA c : c # "+")

\* str.strip()
RECURSIVE Strip(_)
Strip(s) ==
    IF s = << >> THEN s
    ELSE IF Head(s) = " " THEN Strip(Tail(s))
    ELSE IF s[Len(s)] = " " THEN Strip(SubSeq(s, 1, Len(s) - 1))
    ELSE s

\* str.split(' '): one token per separator, empty tokens kept
RECURSIVE SplitSpace(_)
SplitSpace(s) ==
    IF \A i \in 1..Len(s) : s[i] # " " THEN <<s>>
    ELSE LET i == CHOOSE j \in 1..Len(s) : s[j] = " " /\ \A h \in 1..(j - 1) : s[h] # " "
         IN  <<SubSeq(s, 1, i - 1)>> \o SplitSpace(SubSeq(s, i + 1, Len(s)))

\* line 290
Regions == <<"region_a", "region_b", "region_c", "region_d">>

Returned(v) == [raised |-> FALSE, value |-> v]
Raised == [raised |-> TRUE, value |-> Empty]

\* lines 282-295.  IndexError is raised by numbers[0] on an empty list, by
\* x.pop(1) on an entry with one token, and by regions.pop(0) once the four
\* names are used up.
SplitNumbers(nums) ==
    LET toks == [i \in 1..Len(nums) |-> SplitSpace(Strip(RemovePlus(nums[i])))]
    IN  IF Len(nums) = 0 THEN Raised
        ELSE IF Len(toks[1]) > 1
        THEN IF \E i \in 1..Len(toks) : Len(toks[i]) < 2 THEN Raised
             ELSE IF Len(toks) > Len(Regions) THEN Raised
             ELSE Returned([f \in {"idc"} \cup {Regions[i] : i \in 1..Len(toks)} |->
                              IF f = "idc" THEN toks[1][1]
                              ELSE toks[CHOOSE i \in 1..Len(toks) : Regions[i] = f][2]])
        ELSE Returned([idc |-> toks[1][1]])

\* the dialing codes and sub-codes of the raw strings "+<idc>" and
\* "+<idc> <sub-code>"; no sub-code is << >>
Forms ==
    { <<<<"1">>, << >>>>, <<<<"1">>, <<"2", "4", "2">>>>, <<<<"1">>, <<"2", "4", "6">>>>,
      <<<<"3", "3">>, << >>>> }

RawOf(form) == <<"+">> \o form[1] \o (IF form[2] = << >> THEN << >> ELSE <<" ">> \o form[2])

RawStrings == {RawOf(form) : form \in Forms}

InitSplit ==
    /\ pc = "split"
    /\ numbers \in UNION {[1..n -> RawStrings] : n \in 0..MaxEntries}
    /\ result = NoDict
    /\ heap = NoDict
    /\ heap0 = NoDict
    /\ und = NoDict
    /\ wad = NoDict
    /\ newdata = NoDict
    /\ patched = NoSeq
    /\ isonum = NoDict
    /\ todo = {}
    /\ missing_iso3 = {}
    /\ country_codes = NoDict
    /\ byname = NoDict
    /\ pending = {}

SplitReturn ==
    /\ pc = "split"
    /\ ~SplitNumbers(numbers).raised
    /\ result' = SplitNumbers(numbers).value
    /\ pc' = "split_returned"
    /\ UNCHANGED <<heap, heap0, und, wad, newdata, patched, isonum, todo, missing_iso3,
                   numbers, country_codes, byname, pending>>

SplitRaise ==
    /\ pc = "split"
    /\ SplitNumbers(numbers).raised
    /\ pc' = "split_raised"
    /\ UNCHANGED <<heap, heap0, und, wad, newdata, patched, isonum, todo, missing_iso3,
                   numbers, result, country_codes, byname, pending>>

NextSplit == SplitReturn \/ SplitRaise

SpecSplit == InitSplit /\ [][NextSplit]_vars

\* ------------------------------------------------ claims on _split_numbers
FormOf(raw) == CHOOSE form \in Forms : RawOf(form) = raw

\* the sub-codes of a list, in source order
RECURSIVE SubCodes(_)
SubCodes(nums) ==
    IF nums = << >> THEN << >>
    ELSE (IF FormOf(Head(nums))[2] = << >> THEN << >> ELSE <<FormOf(Head(nums))[2]>>)
         \o SubCodes(Tail(nums))

\* C6 as claimed: for a list of one to four raw strings, _split_numbers
\* returns the idc of the first entry and the sub-codes of the entries that
\* have one, in source order, as region_a, region_b, ...; with no sub-code
\* the result has idc only.
C6_Split ==
    (pc \in {"split_returned", "split_raised"} /\ Len(numbers) \in 1..Len(Regions)) =>
        LET subs == SubCodes(numbers)
        IN  /\ pc = "split_returned"
            /\ DOMAIN result = {"idc"} \cup {Regions[i] : i \in 1..Len(subs)}
            /\ result["idc"] = FormOf(numbers[1])[1]
            /\ \A i \in 1..Len(subs) : result[Regions[i]] = subs[i]

\* C7 as claimed: with more than four sub-codes _split_numbers returns, with
\* the first four as region_a..region_d and the later ones dropped.
C7_Overflow ==
    (/\ pc \in {"split_returned", "split_raised"}
     /\ Len(numbers) > Len(Regions)
     /\ Len(SubCodes(numbers)) = Len(numbers)) =>
        /\ pc = "split_returned"
        /\ DOMAIN result = {"idc"} \cup {Regions[i] : i \in 1..Len(Regions)}
        /\ result["idc"] = FormOf(numbers[1])[1]
        /\ \A i \in 1..Len(Regions) : result[Regions[i]] = SubCodes(numbers)[i]

\* ------------------------------------------------------------- map_numbers
S_MYANMAR == <<"M", "Y", "A", "N", "M", "A", "R">>
S_BURMA == <<"B", "U", "R", "M", "A">>
S_HOLY_SEE == <<"H", "O", "L", "Y", " ", "S", "E", "E", " ", "(", "V", "A", "T", "I", "C", "A", "N", " ", "C", "I", "T", "Y", " ", "S", "T", "A", "T", "E", ")">>
S_VATICAN == <<"V", "A", "T", "I", "C", "A", "N", " ", "C", "I", "T", "Y", " ", "S", "T", "A", "T", "E", " ", "(", "H", "O", "L", "Y", " ", "S", "E", "E", ")">>
S_GUINEA == <<"G", "U", "I", "N", "E", "A">>
S_GUINEA_BISSAU == <<"G", "U", "I", "N", "E", "A", "-", "B", "I", "S", "S", "A", "U">>
S_EQUATORIAL_GUINEA == <<"E", "Q", "U", "A", "T", "O", "R", "I", "A", "L", " ", "G", "U", "I", "N", "E", "A">>
S_FRANCE == <<"F", "R", "A", "N", "C", "E">>
Raw_39_066 == <<"+", "3", "9", " ", "0", "6", "6">>

\* lines 44-73
COUNTRY_MAPPINGS ==
       <<"U", "N", "I", "T", "E", "D", " ", "S", "T", "A", "T", "E", "S">> :>
       <<"U", "N", "I", "T", "E", "D", " ", "S", "T", "A", "T", "E", "S", " ", "O", "F", " ", "A", "M", "E", "R", "I", "C", "A">>
    @@ <<"S", "A", "I", "N", "T", " ", "M", "A", "R", "T", "I", "N", " ", "(", "F", "R", "A", "N", "C", "E", ")">> :>
       <<"S", "A", "I", "N", "T", "-", "M", "A", "R", "T", "I", "N", " ", "(", "F", "R", "E", "N", "C", "H", " ", "P", "A", "R", "T", ")">>
    @@ <<"S", "O", "U", "T", "H", " ", "G", "E", "O", "R", "G", "I", "A", " ", "A", "N", "D", " ", "T", "H", "E", " ", "S", "O", "U", "T", "H", " ", "S", "A", "N", "D", "W", "I", "C", "H", " ", "I", "S", "L", "A", "N", "D", "S">> :>
       <<"S", "O", "U", "T", "H", " ", "G", "E", "O", "R", "G", "I", "A", " ", "A", "N", "D", " ", "S", "O", "U", "T", "H", " ", "S", ".", "S", ".">>
    @@ <<"C", "A", "R", "I", "B", "B", "E", "A", "N", " ", "N", "E", "T", "H", "E", "R", "L", "A", "N", "D", "S">> :>
       <<"N", "E", "T", "H", "E", "R", "L", "A", "N", "D", "S", " ", "A", "N", "T", "I", "L", "L", "E", "S">>
    @@ <<"L", "A", "O", "S">> :>
       <<"L", "A", "O", " ", "P", "E", "O", "P", "L", "E", "'", "S", " ", "D", "E", "M", "O", "C", "R", "A", "T", "I", "C", " ", "R", "E", "P", "U", "B", "L", "I", "C">>
    @@ <<"B", "U", "R", "M", "A">> :>
       <<"M", "Y", "A", "N", "M", "A", "R">>
    @@ <<"M", "I", "C", "R", "O", "N", "E", "S", "I", "A", ",", " ", "F", "E", "D", "E", "R", "A", "T", "E", "D", " ", "S", "T", "A", "T", "E", "S", " ", "O", "F">> :>
       <<"M", "I", "C", "R", "O", "N", "E", "S", "I", "A", " ", "(", "F", "E", "D", "E", "R", "A", "T", "E", "D", " ", "S", "T", "A", "T", "E", "S", " ", "O", "F", ")">>
    @@ <<"K", "O", "R", "E", "A", ",", " ", "N", "O", "R", "T", "H">> :>
       <<"D", "E", "M", "O", "C", "R", "A", "T", "I", "C", " ", "P", "E", "O", "P", "L", "E", "'", "S", " ", "R", "E", "P", "U", "B", "L", "I", "C", " ", "O", "F", " ", "K", "O", "R", "E", "A">>
    @@ <<"K", "O", "R", "E", "A", ",", " ", "S", "O", "U", "T", "H">> :>
       <<"R", "E", "P", "U", "B", "L", "I", "C", " ", "O", "F", " ", "K", "O", "R", "E", "A">>
    @@ <<"C", "O", "N", "G", "O", ",", " ", "D", "E", "M", "O", "C", "R", "A", "T", "I", "C", " ", "R", "E", "P", "U", "B", "L", "I", "C", " ", "O", "F", " ", "T", "H", "E", " ", "(", "Z", "A", "I", "R", "E", ")">> :>
       <<"D", "E", "M", "O", "C", "R", "A", "T", "I", "C", " ", "R", "E", "P", "U", "B", "L", "I", "C", " ", "O", "F", " ", "T", "H", "E", " ", "C", "O", "N", "G", "O">>
    @@ <<"U", "S", " ", "V", "I", "R", "G", "I", "N", " ", "I", "S", "L", "A", "N", "D", "S">> :>
       <<"U", "N", "I", "T", "E", "D", " ", "S", "T", "A", "T", "E", "S", " ", "V", "I", "R", "G", "I", "N", " ", "I", "S", "L", "A", "N", "D", "S">>
    @@ <<"M", "A", "C", "A", "U">> :>
       <<"C", "H", "I", "N", "A", ",", " ", "M", "A", "C", "A", "O", " ", "S", "P", "E", "C", "I", "A", "L", " ", "A", "D", "M", "I", "N", "I", "S", "T", "R", "A", "T", "I", "V", "E", " ", "R", "E", "G", "I", "O", "N">>
    @@ <<"F", "A", "R", "O", "E", " ", "I", "S", "L", "A", "N", "D", "S">> :>
       <<"F", "A", "E", "R", "O", "E", " ", "I", "S", "L", "A", "N", "D", "S">>
    @@ <<"E", "A", "S", "T", " ", "T", "I", "M", "O", "R">> :>
       <<"T", "I", "M", "O", "R", "-", "L", "E", "S", "T", "E">>
    @@ <<"P", "A", "L", "E", "S", "T", "I", "N", "I", "A", "N", " ", "T", "E", "R", "R", "I", "T", "O", "R", "I", "E", "S">> :>
       <<"S", "T", "A", "T", "E", " ", "O", "F", " ", "P", "A", "L", "E", "S", "T", "I", "N", "E">>
    @@ <<"V", "A", "T", "I", "C", "A", "N", " ", "C", "I", "T", "Y", " ", "S", "T", "A", "T", "E", " ", "(", "H", "O", "L", "Y", " ", "S", "E", "E", ")">> :>
       <<"H", "O", "L", "Y", " ", "S", "E", "E", " ", "(", "V", "A", "T", "I", "C", "A", "N", " ", "C", "I", "T", "Y", " ", "S", "T", "A", "T", "E", ")">>
    @@ <<"S", "A", "I", "N", "T", " ", "B", "A", "R", "T", "H", "É", "L", "E", "M", "Y">> :>
       <<"S", "A", "I", "N", "T", "-", "B", "A", "R", "T", "H", "É", "L", "E", "M", "Y">>
    @@ <<"S", "I", "N", "T", " ", "M", "A", "A", "R", "T", "E", "N", " ", "(", "N", "E", "T", "H", "E", "R", "L", "A", "N", "D", "S", ")">> :>
       <<"S", "I", "N", "T", " ", "M", "A", "A", "R", "T", "E", "N", " ", "(", "D", "U", "T", "C", "H", " ", "P", "A", "R", "T", ")">>
    @@ <<"S", "Ã", "O", " ", "T", "O", "M", "É", " ", "A", "N", "D", " ", "P", "R", "Í", "N", "C", "I", "P", "E">> :>
       <<"S", "A", "O", " ", "T", "O", "M", "E", " ", "A", "N", "D", " ", "P", "R", "I", "N", "C", "I", "P", "E">>
    @@ <<"S", "I", "N", "T", " ", "E", "U", "S", "T", "A", "T", "I", "U", "S">> :>
       <<"B", "O", "N", "A", "I", "R", "E", ",", " ", "S", "A", "I", "N", "T", " ", "E", "U", "S", "T", "A", "T", "I", "U", "S", " ", "A", "N", "D", " ", "S", "A", "B", "A">>

\* lines 305-306
Alias(country) ==
    IF country \in DOMAIN COUNTRY_MAPPINGS THEN COUNTRY_MAPPINGS[country] ELSE country

\* str.find: the lowest index (from 0) at which sub starts in s, else -1
Find(s, sub) ==
    LET at == {i \in 0..(Len(s) - Len(sub)) : SubSeq(s, i + 1, i + Len(sub)) = sub}
    IN  IF at = {} THEN -1 ELSE CHOOSE i \in at : \A j \in at : i <= j

\* data.update(_split_numbers(numbers)): IndexError leaves map_numbers
Augment(h, id, nums) ==
    LET r == SplitNumbers(nums)
    IN  IF r.raised THEN [raised |-> TRUE, heap |-> h]
        ELSE [raised |-> FALSE, heap |-> [h EXCEPT ![id] = Update(h[id], r.value)]]

\* lines 305-330: one pass of the loop over country_codes.items()
MapEntry(h, bn, name, nums) ==
    LET country == Alias(name)
    IN  IF country \in DOMAIN bn
        THEN Augment(h, bn[country],
                     IF country = S_HOLY_SEE THEN <<Raw_39_066>> ELSE nums)
        ELSE LET possible_countries == {c \in DOMAIN bn : Find(c, country) >= 0}
             IN  IF Cardinality(possible_countries) = 1
                 THEN Augment(h, bn[CHOOSE c \in possible_countries : TRUE], nums)
                 ELSE [raised |-> FALSE, heap |-> h]

BlendedNames == {S_GUINEA_BISSAU, S_EQUATORIAL_GUINEA, S_MYANMAR, S_HOLY_SEE}
DialNames == {S_GUINEA, S_BURMA, S_MYANMAR, S_VATICAN, S_FRANCE}
DialLists ==
    { <<RawOf(<<<<"3", "3">>, << >>>>)>>,
      <<RawOf(<<<<"1">>, <<"2", "4", "2">>>>), RawOf(<<<<"1">>, <<"2", "4", "6">>>>)>>,
      <<RawOf(<<<<"1">>, <<"2", "4", "2">>>>), RawOf(<<<<"1">>, << >>>>)>> }

InitMap ==
    /\ pc = "map"
    /\ \E ks \in SUBSET Iso3s :
         /\ Cardinality(ks) <= MaxBlended
         /\ newdata = [k \in ks |-> WaId(k)]
         /\ \E nm \in [ks -> BlendedNames] :
              heap = [id \in {WaId(k) : k \in ks} |->
                        [iso2 |-> "XX", iso3 |-> id[2], number |-> "004", name |-> nm[id[2]]]]
    /\ \E cs \in SUBSET DialNames :
         /\ Cardinality(cs) <= MaxCodes
         /\ country_codes \in [cs -> DialLists]
    /\ heap0 = heap
    /\ und = NoDict
    /\ wad = NoDict
    /\ patched = NoSeq
    /\ isonum = NoDict
    /\ todo = {}
    /\ missing_iso3 = {}
    /\ numbers = NoSeq
    /\ result = NoDict
    /\ byname = NoDict
    /\ pending = {}

\* lines 302-304: byname = reindex(data, 'name'); the loop runs over the
\* list country_codes.items()
MapStart ==
    /\ pc = "map"
    /\ byname' \in ReindexResults(heap, newdata, "name")
    /\ pending' = DOMAIN country_codes
    /\ pc' = "map_loop"
    /\ UNCHANGED <<heap, heap0, und, wad, newdata, patched, isonum, todo, missing_iso3,
                   numbers, result, country_codes>>

MapStep ==
    /\ pc = "map_loop"
    /\ \E name \in pending :
         LET r == MapEntry(heap, byname, name, country_codes[name])
         IN  /\ pending' = pending \ {name}
             /\ heap' = r.heap
             /\ pc' = IF r.raised THEN "map_raised" ELSE "map_loop"
    /\ UNCHANGED <<heap0, und, wad, newdata, patched, isonum, todo, missing_iso3,
                   numbers, result, country_codes, byname>>

MapReturn ==
    /\ pc = "map_loop"
    /\ pending = {}
    /\ pc' = "mapped"
    /\ UNCHANGED <<heap, heap0, und, wad, newdata, patched, isonum, todo, missing_iso3,
                   numbers, result, country_codes, byname, pending>>

NextMap == MapStart \/ MapStep \/ MapReturn

SpecMap == InitMap /\ [][NextMap]_vars

\* --------------------------------------------------- claims on map_numbers
\* sub occurs in s
Contains(s, sub) == \E i \in 1..Len(s), j \in 1..Len(s) : SubSeq(s, i, j) = sub

NamesOf(h) == {h[id].name : id \in DOMAIN h}

\* C8 as claimed: a pass over an entry whose name, after alias substitution,
\* is no blended name changes no record and does not raise when the name is
\* part of no blended name or of several; when it is part of exactly one, the
\* record of that name, and no other, gains the entry's idc.
C8_NameMatch ==
    [][(pc = "map_loop" /\ pending' # pending) =>
          LET name == CHOOSE x \in pending : x \notin pending'
              country == Alias(name)
              cands == {n \in NamesOf(heap) : Contains(n, country)}
          IN  country \notin NamesOf(heap) =>
                  IF Cardinality(cands) = 1
                  THEN \E id \in DOMAIN heap :
                          /\ heap[id].name \in cands
                          /\ "idc" \in DOMAIN heap'[id]
                          /\ heap'[id]["idc"] = FormOf(country_codes[name][1])[1]
                          /\ \A other \in DOMAIN heap \ {id} : heap'[other] = heap[other]
                          /\ pc' = "map_loop"
                  ELSE heap' = heap /\ pc' = "map_loop"]_vars

Orders(S) == {o \in [1..Cardinality(S) -> S] : \A i, j \in DOMAIN o : i # j => o[i] # o[j]}

\* the records after the pairs were processed in the order o
RECURSIVE MapFold(_, _)
MapFold(h, o) ==
    IF o = << >> THEN h
    ELSE MapFold(MapEntry(h, byname, Head(o), country_codes[Head(o)]).heap, Tail(o))

\* C10 as claimed: when map_numbers has returned, the records are what any
\* order of processing the (name, numbers) pairs gives.
C10_OrderIndependent ==
    pc = "mapped" => \A o \in Orders(DOMAIN country_codes) : MapFold(heap0, o) = heap

=============================================================================
